---- MODULE Spec2Model ----
(***************************************************************************)
(* A3C trainer of src/a3c.py: the Trainer that starts and joins the worker *)
(* processes, the ActorCriticWorker training loop with its experience      *)
(* buffer, and the SharedAdam optimizer whose state and parameters live in *)
(* shared memory and are updated by the workers without any lock.          *)
(*                                                                         *)
(* Tensor contents are kept in an exact normal form:                       *)
(*   - a gradient is named by the push that produced it, <<w, k>>: the     *)
(*     k-th push of worker w;                                              *)
(*   - exp_avg (initially zero) is a set of pairs <<g, e>>, standing for   *)
(*     the sum over its members of (1 - beta1) * beta1^e * g; exp_avg_sq   *)
(*     likewise with beta2 and g*g;                                        *)
(*   - a parameter tensor is identified by the set of pushes whose         *)
(*     addcdiv_ term has been added to its initial value.                  *)
(* Nothing in the code orders the steps of different processes. The load   *)
(* and the store of "state['step'] += 1" are two steps; the updates of the *)
(* two moments of a tensor are one step, and so is the update of the       *)
(* tensor's data together with the reads it is computed from;              *)
(* load_state_dict copies one tensor per step. Finer interleavings of the  *)
(* in-place operations only add behaviours to the ones explored here.      *)
(*                                                                         *)
(* The synchronous trainer of src/a2c.py, A2CAgent.train, is a second      *)
(* program (SpecA2C): one process that steps all its games in turn and     *)
(* keeps the experience of every iteration in self.memory.                 *)
(***************************************************************************)
EXTENDS Integers, Sequences, FiniteSets, TLC

\* ------------------------------------------------------------------ bounds
NPARAMS == 2        \* parameter tensors of the network that are modelled
MaxFreq == 3        \* largest BUFFER_UPDATE_FREQ tried by Init
MaxIters == 6       \* largest TRAIN_ITERATIONS tried by Init: range(1, MaxIters)
MaxEps == 2         \* exploration probabilities are 0/MaxEps .. MaxEps/MaxEps
MaxFrame == 3       \* largest FINAL_EXPLORATION_FRAME tried by Init

\* --------------------------------------------------------- program constants
LOG_FREQ == 100     \* "if i % 100 == 0"
LOG_WORKER == 2     \* "if self.id == 2"

Params == 0 .. (NPARAMS - 1)
Null == "None"

\* Values that stand for "nothing yet", of the type of what replaces them:
NoGrad == <<>>                 \* p.grad is None
NoEps == <<>>                  \* no forward pass made yet
Unbound == [bound |-> FALSE, terms |-> <<>>]   \* a local that is not assigned
LocalInit == {<<-1, 0>>}       \* weights set by init_weights, before any pull
Zero == <<"const", 0>>         \* the number 0

VARIABLES
    cfg,         \* config_a3c: the values of the cfg.* constants
    env,         \* the Game instances (what step() may return) and the network's
                 \* backward pass (which parameter tensors get no gradient)
    trainer,     \* Trainer.train: [pc, k]
    worker,      \* per process: the ActorCriticWorker and its position
    global_net,  \* shared parameter tensors, global_net[p]
    state,       \* SharedAdam.state[p] = [step, exp_avg, exp_avg_sq]
    files,       \* checkpoint files written, by iteration index
    hist,        \* history variables (observation only)
    agent        \* the A2CAgent of src/a2c.py and the position of its train()

a3cvars == <<cfg, env, trainer, worker, global_net, state, files, hist>>

vars == <<cfg, env, trainer, worker, global_net, state, files, hist, agent>>

Workers == 0 .. (cfg.N_WORKERS - 1)

Min(a, b) == IF a <= b THEN a ELSE b

\* ------------------------------------------------------- exploration schedule
\* np.linspace(start, stop, num)[k] as the exact rational <<numerator, denominator>>:
\* start + k * (stop - start) / (num - 1); for num = 1 the only point is start.
LinspaceOpen(start, stop, num, k) ==
    <<start * num + k * (stop - start), num>>

Linspace(start, stop, num, k) ==
    IF num = 1 THEN <<start, 1>>
    ELSE <<start * (num - 1) + k * (stop - start), num - 1>>

\* self.epsilon[min(i, cfg.FINAL_EXPLORATION_FRAME - 1)]
Epsilon(c, i) ==
    Linspace(c.INITIAL_EXPLORATION, c.FINAL_EXPLORATION, c.FINAL_EXPLORATION_FRAME,
             Min(i, c.FINAL_EXPLORATION_FRAME - 1))

\* ------------------------------------------------------------ forward pass
\* "def forward(self, x, eps=-1)": the default of eps, in units of 1/MaxEps
DefaultEps == <<-MaxEps, 1>>

\* random.random(): a number of [0, 1), in units of 1/MaxEps
RandomDraws == 0 .. (MaxEps - 1)

\* "if random.random() <= eps": the sampled action is replaced by a random one
ExplorationOverride(eps, r) == r * eps[2] <= eps[1]

\* ------------------------------------------------------------------ buffer
BufferKeys == {"value", "action_prob", "reward", "entropy"}

\* {k: [] for k in [...]}: four lists of their own
FreshBuffer == [lists |-> [k \in BufferKeys |-> <<>>], aliased |-> FALSE]

\* dict.fromkeys(self.buffer, []): every key refers to the one new list
ClearedBuffer == [lists |-> [k \in BufferKeys |-> <<>>], aliased |-> TRUE]

\* self.buffer[key].append(v)
BufAppend(b, key, v) ==
    IF b.aliased
    THEN [b EXCEPT !.lists = [k \in BufferKeys |-> Append(b.lists[k], v)]]
    ELSE [b EXCEPT !.lists[key] = Append(@, v)]

\* "if self.buffer_length % cfg.BUFFER_UPDATE_FREQ == 0 or done"
FlushCondNoDone(len, d, freq) == len % freq = 0

FlushCondNoThreshold(len, d, freq) == d

FlushCond(len, d, freq) == (len % freq = 0) \/ d

\* ------------------------------------------------------------- environment
\* Game.step: a frame with done False or True, or an exception. A scripted
\* environment raises and reports done exactly on the listed steps of each
\* worker.
EnvOutcomes(w, n) ==
    IF env.kind = "scripted"
    THEN {IF n \in env.failAt[w] THEN "fail"
          ELSE IF n \in env.doneAt[w] THEN "done" ELSE "ok"}
    ELSE {"ok", "done", "fail"}

\* Whether the loss of a cycle is a finite number: it is computed from the
\* outputs of the network, which may overflow or be NaN. env.losses lists the
\* outcomes that a run considers.
LossOutcomes == env.losses

\* ------------------------------------------------------------------ Init
NewWorker ==
    [pc |-> "unstarted", i |-> 0, buffer |-> FreshBuffer, buffer_length |-> 0,
     done |-> FALSE, eplen |-> 0, eps |-> NoEps, loss |-> Unbound,
     lossval |-> Unbound,
     net |-> [p \in Params |-> LocalInit], grad |-> [p \in Params |-> NoGrad],
     finite |-> TRUE, explored |-> FALSE, exc |-> Null, p |-> 0, ret |-> Null, rd |-> 0, npush |-> 0]

InitShared ==
    /\ global_net = [p \in Params |-> {}]
    /\ state = [p \in Params |-> [step |-> 0, exp_avg |-> {}, exp_avg_sq |-> {}]]
    /\ files = {}

\* no A2CAgent is constructed by the A3C trainer
NoAgent == [pc |-> "absent"]

InitWith(c, e) ==
    /\ agent = NoAgent
    /\ cfg = c
    /\ env = e
    /\ trainer = [pc |-> "start", k |-> 0]
    /\ worker = [w \in 0 .. (c.N_WORKERS - 1) |-> NewWorker]
    /\ InitShared
    /\ hist = [calls |-> 0, returned |-> 0,
               applied |-> [p \in Params |-> 0],
               flushLog |-> [w \in 0 .. (c.N_WORKERS - 1) |-> <<>>],
               seen |-> [w \in 0 .. (c.N_WORKERS - 1) |-> {}],
               pulled |-> [w \in 0 .. (c.N_WORKERS - 1) |-> FALSE],
               tused |-> [w \in 0 .. (c.N_WORKERS - 1) |-> <<>>],
               overlap |-> [p \in Params |-> FALSE],
               npull |-> [w \in 0 .. (c.N_WORKERS - 1) |-> 0],
               recpull |-> [w \in 0 .. (c.N_WORKERS - 1) |-> {}]]

Config(n, freq, iters, save, e0, e1, frame) ==
    [N_WORKERS |-> n, BUFFER_UPDATE_FREQ |-> freq, TRAIN_ITERATIONS |-> iters,
     SAVE_NETWORK_FREQ |-> save, INITIAL_EXPLORATION |-> e0,
     FINAL_EXPLORATION |-> e1, FINAL_EXPLORATION_FRAME |-> frame]

\* The values config_a3c may hold for the exploration schedule: a probability
\* annealed downwards over at least two points. Units of INITIAL_EXPLORATION
\* and FINAL_EXPLORATION are 1/MaxEps.
ExplorationConfigs ==
    {c \in [e0 : 0 .. MaxEps, e1 : 0 .. MaxEps, frame : 2 .. MaxFrame] : c.e1 <= c.e0}

\* Every layer of ActorCriticNetwork takes part in the loss, so backward()
\* leaves no parameter without a gradient.
FreeEnv == [kind |-> "free", nograd |-> {}, losses |-> BOOLEAN]

\* the same with losses that are all finite
FiniteEnv == [kind |-> "free", nograd |-> {}, losses |-> {TRUE}]

\* Two workers that run one iteration each (every interleaving of two
\* concurrent pushes and pulls, the losses finite), or one worker with a longer
\* budget, any flush threshold, any exploration schedule and any loss.
Init ==
    \/ \E freq \in 1 .. 2 : InitWith(Config(2, freq, 2, 1, MaxEps, 0, 2), FiniteEnv)
    \/ \E freq \in 1 .. MaxFreq, x \in ExplorationConfigs :
          InitWith(Config(1, freq, MaxIters, 2, x.e0, x.e1, x.frame), FreeEnv)

\* ------------------------------------------------------------------ Trainer
\* a process has exited: train() returned or an exception ended the process
ExitedOnReturnOnly(w) == worker[w].pc = "done"

Exited(w) == worker[w].pc \in {"done", "crashed"}

\* worker.join() returns once the process has exited
JoinNoWait(w) == TRUE

JoinReady(w) == Exited(w)

\* "for worker in self.workers: worker.start()"
TStart ==
    /\ trainer.pc = "start"
    /\ trainer.k < cfg.N_WORKERS
    /\ worker' = [worker EXCEPT ![trainer.k].pc = "construct"]
    /\ trainer' = IF trainer.k + 1 < cfg.N_WORKERS
                  THEN [trainer EXCEPT !.k = @ + 1]
                  ELSE [pc |-> "join", k |-> 0]
    /\ UNCHANGED <<agent, cfg, env, global_net, state, files, hist>>

\* "for worker in self.workers: worker.join()"
TJoin ==
    /\ trainer.pc = "join"
    /\ trainer.k < cfg.N_WORKERS
    /\ JoinReady(trainer.k)
    /\ trainer' = IF trainer.k + 1 < cfg.N_WORKERS
                  THEN [trainer EXCEPT !.k = @ + 1]
                  ELSE [pc |-> "returned", k |-> trainer.k + 1]
    /\ UNCHANGED <<agent, cfg, env, worker, global_net, state, files, hist>>

\* ------------------------------------------------------------------ worker
\* ActorCriticWorker.__init__ up to the call of load_state_dict (line 197)
Construct(w) ==
    /\ worker[w].pc = "construct"
    /\ worker' = [worker EXCEPT ![w].pc = "pull", ![w].p = 0, ![w].ret = "reset"]
    /\ hist' = [hist EXCEPT !.seen[w] = {global_net}]
    /\ UNCHANGED <<agent, cfg, env, trainer, global_net, state, files>>

\* self.net.load_state_dict(self.global_net.state_dict()): one tensor copied
PullTensor(w) ==
    LET wr == worker[w]
        last == wr.p + 1 = NPARAMS
    IN  /\ wr.pc = "pull"
        /\ worker' = [worker EXCEPT ![w].net[wr.p] = global_net[wr.p],
                                    ![w].p = IF last THEN 0 ELSE wr.p + 1,
                                    ![w].pc = IF last THEN wr.ret ELSE "pull"]
        /\ hist' = [hist EXCEPT !.pulled[w] = last,
                                !.npull[w] = IF last THEN @ + 1 ELSE @]
        /\ UNCHANGED <<agent, cfg, env, trainer, global_net, state, files>>

\* train(), line 277: the first game.step(0), then the head of the for loop
EnvReset(w) ==
    /\ worker[w].pc = "reset"
    /\ \E out \in EnvOutcomes(w, 0) :
        worker' = [worker EXCEPT
            ![w].pc = IF out = "fail" THEN "crashed"
                      ELSE IF 1 < cfg.TRAIN_ITERATIONS THEN "collect" ELSE "done",
            ![w].exc = IF out = "fail" THEN "game.step" ELSE @,
            ![w].i = IF out = "fail" THEN 0 ELSE 1]
    /\ hist' = [hist EXCEPT !.pulled[w] = FALSE, !.seen[w] = {}]
    /\ UNCHANGED <<agent, cfg, env, trainer, global_net, state, files>>

\* train(), lines 283-300: forward pass, game.step(action), append to the buffer
Collect(w) ==
    LET wr == worker[w]
        b1 == BufAppend(wr.buffer, "value", <<"value", wr.i>>)
        b2 == BufAppend(b1, "action_prob", <<"log_prob", wr.i>>)
        b3 == BufAppend(b2, "reward", <<"reward", wr.i>>)
        b4 == BufAppend(b3, "entropy", <<"entropy", wr.i>>)
    IN  /\ wr.pc = "collect"
        /\ \E out \in EnvOutcomes(w, wr.i), r \in RandomDraws :
            worker' = IF out = "fail"
                      THEN [worker EXCEPT ![w].pc = "crashed",
                                          ![w].exc = "game.step",
                                          ![w].eps = Epsilon(cfg, wr.i)]
                      ELSE [worker EXCEPT ![w].pc = "check",
                                          ![w].eps = Epsilon(cfg, wr.i),
                                          ![w].explored =
                                              ExplorationOverride(Epsilon(cfg, wr.i), r),
                                          ![w].buffer = b4,
                                          ![w].buffer_length = @ + 1,
                                          ![w].done = (out = "done"),
                                          ![w].eplen = @ + 1]
        /\ hist' = [hist EXCEPT !.recpull[w] = @ \cup {hist.npull[w]}]
        /\ UNCHANGED <<agent, cfg, env, trainer, global_net, state, files>>

\* train(), line 304: the flush condition
FlushCheck(w) ==
    LET wr == worker[w]
        flush == FlushCond(wr.buffer_length, wr.done, cfg.BUFFER_UPDATE_FREQ)
    IN  /\ wr.pc = "check"
        /\ worker' = [worker EXCEPT ![w].pc = IF flush THEN "optimize" ELSE "tail",
                                    ![w].explored = FALSE]
        /\ hist' = [hist EXCEPT !.flushLog[w] = IF flush THEN Append(@, wr.i) ELSE @]
        /\ UNCHANGED <<agent, cfg, env, trainer, global_net, state, files>>

\* optimize_model, lines 231-259: bootstrap value, the losses, backward, and the
\* local gradients mapped onto the global parameters. The loss is kept as the
\* list of the operands read for each i of "for i in reversed(range(n))".
BootstrapValue(wr) == IF wr.done THEN Zero ELSE <<"value_1", wr.i>>

\* the eps of the forward pass of line 236, "self.net(batch_next_state)"
BootstrapEpsOfTraining(wr) == wr.eps

BootstrapEps(wr) == DefaultEps

\* The number rs[1] + DISCOUNT * rs[2] + ... + DISCOUNT^Len(rs) * v, kept as
\* its operands; Discounted(<<>>, v) is v itself.
Discounted(rs, v) == [rewards |-> rs, boot |-> v]

LossTerms(b, n, value_1) ==
    [k \in 1 .. n |->
        LET j == n - k   \* the Python index i
        IN  [value_target |-> Discounted(<<b.lists["reward"][j + 1]>>, value_1),
             advantage |-> <<Discounted(<<>>, value_1), b.lists["value"][j + 1]>>,
             delta_t |-> <<b.lists["reward"][j + 1], b.lists["value"][j + 2],
                           b.lists["value"][j + 1]>>,
             log_prob |-> b.lists["action_prob"][j + 1],
             entropy |-> b.lists["entropy"][j + 1]]]

Optimize(w) ==
    LET wr == worker[w]
        value_1 == BootstrapValue(wr)
        b == BufAppend(wr.buffer, "value", value_1)
    IN  /\ wr.pc = "optimize"
        /\ \E fin \in LossOutcomes, r \in RandomDraws : worker' = [worker EXCEPT
              ![w].finite = fin,
              ![w].explored = ~wr.done /\ ExplorationOverride(BootstrapEps(wr), r),
              ![w].buffer = b,
              ![w].lossval = [bound |-> TRUE,
                              terms |-> LossTerms(b, wr.buffer_length, value_1)],
              ![w].grad = [p \in Params |-> IF p \in env.nograd THEN NoGrad
                                            ELSE <<w, wr.npush + 1>>],
              ![w].npush = @ + 1,
              ![w].p = 0,
              ![w].pc = "inc_read"]
        /\ hist' = [hist EXCEPT !.calls = @ + 1]
        /\ UNCHANGED <<agent, cfg, env, trainer, global_net, state, files>>

\* ------------------------------------------------------- SharedAdam.step
\* "state = self.state[p]": the optimizer state that tensor p uses
CounterOfGlobal(p) == 0

CounterOf(p) == p

\* "if p.grad is None"
GradIsNoneNever(g) == FALSE

GradIsNone(g) == g = NoGrad

\* the end of the body of "for p in group['params']"; after the last tensor
\* step() returns and optimize_model goes on to load_state_dict (line 263).
\* The locals of the loop body are dead here and are reset.
AfterTensorNoPull(wr) ==
    IF wr.p + 1 < NPARAMS
    THEN [wr EXCEPT !.pc = "inc_read", !.p = @ + 1, !.rd = 0]
    ELSE [wr EXCEPT !.pc = "clear", !.p = 0, !.ret = "clear", !.rd = 0]

AfterTensor(wr) ==
    IF wr.p + 1 < NPARAMS
    THEN [wr EXCEPT !.pc = "inc_read", !.p = @ + 1, !.rd = 0]
    ELSE [wr EXCEPT !.pc = "pull", !.p = 0, !.ret = "clear", !.rd = 0]

HistAfterTensor(w, h, gnet) ==
    IF worker[w].p + 1 < NPARAMS THEN h
    ELSE [h EXCEPT !.returned = @ + 1, !.seen[w] = {gnet}]

\* line 140 "if p.grad is None: continue", else line 148, the load of step
StepIncRead(w) ==
    LET wr == worker[w]
    IN  /\ wr.pc = "inc_read"
        /\ IF GradIsNone(wr.grad[wr.p])
           THEN /\ worker' = [worker EXCEPT ![w] = AfterTensor(wr)]
                /\ hist' = HistAfterTensor(w, hist, global_net)
           ELSE /\ worker' = [worker EXCEPT ![w].rd = state[CounterOf(wr.p)].step,
                                            ![w].pc = "inc_write"]
                /\ hist' = [hist EXCEPT !.overlap[wr.p] =
                              @ \/ \E v \in Workers \ {w} :
                                      worker[v].pc = "inc_write" /\ worker[v].p = wr.p]
        /\ UNCHANGED <<agent, cfg, env, trainer, global_net, state, files>>

\* line 148 "state['step'] += 1", the store
StepIncWrite(w) ==
    LET wr == worker[w]
    IN  /\ wr.pc = "inc_write"
        /\ state' = [state EXCEPT ![CounterOf(wr.p)].step = wr.rd + 1]
        /\ worker' = [worker EXCEPT ![w].pc = "moments"]
        /\ hist' = [hist EXCEPT !.applied[wr.p] = @ + 1]
        /\ UNCHANGED <<agent, cfg, env, trainer, global_net, files>>

\* x.mul_(beta) on a moment in normal form
MulBeta(m) == {<<e[1], e[2] + 1>> : e \in m}

\* x.mul_(beta).add_(1 - beta, g) (and addcmul_ with g*g) in normal form
Decay(m, g) == MulBeta(m) \cup {<<g, 0>>}

\* lines 154-155 "exp_avg.mul_(beta1).add_(1 - beta1, grad)" and
\* "exp_avg_sq.mul_(beta2).addcmul_(1 - beta2, grad, grad)"
StepMoments(w) ==
    LET wr == worker[w]
    IN  /\ wr.pc = "moments"
        /\ state' = [state EXCEPT ![wr.p].exp_avg = Decay(@, wr.grad[wr.p]),
                                  ![wr.p].exp_avg_sq = Decay(@, wr.grad[wr.p])]
        /\ worker' = [worker EXCEPT ![w].pc = "apply"]
        /\ UNCHANGED <<agent, cfg, env, trainer, global_net, files, hist>>

\* lines 157-164: denom, the bias corrections read from state['step'], and
\* "p.data.addcdiv_(-step_size, exp_avg, denom)"
StepApply(w) ==
    LET wr == worker[w]
        bias_correction1 == state[CounterOf(wr.p)].step
        bias_correction2 == state[CounterOf(wr.p)].step
        gnet == [global_net EXCEPT ![wr.p] = @ \cup {wr.grad[wr.p]}]
        h == [hist EXCEPT !.seen = [v \in DOMAIN hist.seen |->
                  IF v # w /\ worker[v].pc = "pull"
                  THEN hist.seen[v] \cup {gnet} ELSE hist.seen[v]],
              !.tused[w] = Append(@, <<wr.p, bias_correction1, bias_correction2>>)]
    IN  /\ wr.pc = "apply"
        /\ global_net' = gnet
        /\ worker' = [worker EXCEPT ![w] = AfterTensor(wr)]
        /\ hist' = HistAfterTensor(w, h, gnet)
        /\ UNCHANGED <<agent, cfg, env, trainer, state, files>>

\* ------------------------------------------------- back in train()
\* lines 305-315: "loss = ..." is bound, the buffers cleared, eplen reset
Clear(w) ==
    LET wr == worker[w]
    IN  /\ wr.pc = "clear"
        /\ worker' = [worker EXCEPT ![w].loss = wr.lossval,
                                    ![w].buffer = ClearedBuffer,
                                    ![w].buffer_length = 0,
                                    ![w].finite = TRUE,
                                    ![w].eplen = IF wr.done THEN 0 ELSE @,
                                    ![w].pc = "tail"]
        /\ hist' = [hist EXCEPT !.pulled[w] = FALSE, !.seen[w] = {}, !.tused[w] = <<>>,
                                !.recpull[w] = {}]
        /\ UNCHANGED <<agent, cfg, env, trainer, global_net, state, files>>

\* torch.save(self.global_net.state_dict(), f'{EXPERIMENT_NAME}/{str(i).zfill(7)}.pt')
SaveFile(fs, i, content) == {f \in fs : f[1] # i} \cup {<<i, content>>}

\* lines 317-329 and the loop head: checkpoint, loss logging, next iteration.
\* Reading the unbound local "loss" raises NameError and ends the process.
EndIteration(w) ==
    LET wr == worker[w]
        saves == wr.i % cfg.SAVE_NETWORK_FREQ = 0
        logs == wr.i % LOG_FREQ = 0 /\ w = LOG_WORKER
        raises == logs /\ ~wr.loss.bound
    IN  /\ wr.pc = "tail"
        /\ files' = IF saves THEN SaveFile(files, wr.i, global_net) ELSE files
        /\ worker' = IF raises
                     THEN [worker EXCEPT ![w].pc = "crashed", ![w].exc = "NameError"]
                     ELSE [worker EXCEPT
                             ![w].i = @ + 1,
                             ![w].pc = IF wr.i + 1 < cfg.TRAIN_ITERATIONS
                                       THEN "collect" ELSE "done"]
        /\ UNCHANGED <<agent, cfg, env, trainer, global_net, state, hist>>

Next ==
    \/ TStart
    \/ TJoin
    \/ \E w \in Workers : Construct(w)
    \/ \E w \in Workers : PullTensor(w)
    \/ \E w \in Workers : EnvReset(w)
    \/ \E w \in Workers : Collect(w)
    \/ \E w \in Workers : FlushCheck(w)
    \/ \E w \in Workers : Optimize(w)
    \/ \E w \in Workers : StepIncRead(w)
    \/ \E w \in Workers : StepIncWrite(w)
    \/ \E w \in Workers : StepMoments(w)
    \/ \E w \in Workers : StepApply(w)
    \/ \E w \in Workers : Clear(w)
    \/ \E w \in Workers : EndIteration(w)

Spec == Init /\ [][Next]_vars

\* Every process that can take a step eventually takes one: the operating
\* system schedules each of the processes, and no step waits for a lock.
SpecFair == Spec /\ WF_vars(Next)

\* The scenario of two workers with flush threshold 5: the environment of
\* worker 0 (A) reports done on its 6th step, that of worker 1 (B) on its 3rd.
InitScenario ==
    InitWith(Config(2, 5, 7, 7, MaxEps, 0, 2),
             [kind |-> "scripted", nograd |-> {}, losses |-> {TRUE},
              failAt |-> [w \in 0 .. 1 |-> {}],
              doneAt |-> [w \in 0 .. 1 |-> IF w = 0 THEN {6} ELSE {3}]])

SpecScenario == InitScenario /\ [][Next]_vars

\* SharedAdam.step called with gradients missing on the tensors of G: two
\* workers that make one push each, or one worker that makes several.
InitNullGrad ==
    \E G \in (SUBSET Params) \ {{}} :
        \/ InitWith(Config(2, 1, 2, 1, MaxEps, 0, 2), [kind |-> "free", nograd |-> G, losses |-> {TRUE}])
        \/ InitWith(Config(1, 2, 4, 2, MaxEps, 0, 2), [kind |-> "free", nograd |-> G, losses |-> {TRUE}])

SpecNullGrad == InitNullGrad /\ [][Next]_vars

\* A run long enough to reach the loss logging of line 324: three workers (the
\* logging worker has id 2), a flush threshold equal to the logging period or
\* one above it, and a scripted environment that raises on the first step of
\* workers 0 and 1 and never raises nor reports done for worker 2.
InitLog ==
    \E freq \in LOG_FREQ .. (LOG_FREQ + 1) :
        InitWith(Config(3, freq, LOG_FREQ + 2, LOG_FREQ, MaxEps, 0, 2),
                 [kind |-> "scripted", nograd |-> {}, losses |-> {TRUE},
                  failAt |-> [w \in 0 .. 2 |-> IF w = LOG_WORKER THEN {} ELSE {0}],
                  doneAt |-> [w \in 0 .. 2 |-> {}]])

SpecLog == InitLog /\ [][Next]_vars /\ WF_vars(Next)

\* ------------------------------------------------ src/a2c.py: A2CAgent
\* the options the agent is constructed with
Options(n, freq, iters, save, log) ==
    [n_workers |-> n, buffer_update_freq |-> freq, n_train_iterations |-> iters,
     save_frequency |-> save, log_frequency |-> log]

Games == 0 .. (agent.opt.n_workers - 1)

\* A2CAgent.__init__: "self.memory = []"; train() has not been called yet
NewAgent(o) ==
    [pc |-> "reset", opt |-> o, i |-> 0, memory |-> <<>>,
     dones |-> [j \in 0 .. (o.n_workers - 1) |-> FALSE],
     episode_lengths |-> [j \in 0 .. (o.n_workers - 1) |-> 0],
     loss |-> FALSE, nsteps |-> 0, saved |-> {}, exc |-> Null]

\* The trainer of src/a3c.py is not run here.
InitA2C ==
    /\ cfg = Config(1, 1, 1, 1, MaxEps, 0, 2)
    /\ env = FreeEnv
    /\ trainer = [pc |-> "start", k |-> 0]
    /\ worker = [w \in 0 .. 0 |-> NewWorker]
    /\ InitShared
    /\ hist = [calls |-> 0, returned |-> 0,
               applied |-> [p \in Params |-> 0],
               flushLog |-> [w \in 0 .. 0 |-> <<>>],
               seen |-> [w \in 0 .. 0 |-> {}],
               pulled |-> [w \in 0 .. 0 |-> FALSE],
               tused |-> [w \in 0 .. 0 |-> <<>>],
               overlap |-> [p \in Params |-> FALSE],
               npull |-> [w \in 0 .. 0 |-> 0],
               recpull |-> [w \in 0 .. 0 |-> {}]]
    /\ \E n \in 1 .. 2, freq \in 1 .. MaxFreq, log \in 1 .. MaxFreq :
          agent = NewAgent(Options(n, freq, MaxIters, 2, log))

\* env_step: every game is stepped; each reports done or not, or one raises
EnvStepOutcomes ==
    {[fail |-> FALSE, dones |-> d] : d \in [Games -> BOOLEAN]}
        \cup {[fail |-> TRUE, dones |-> [j \in Games |-> FALSE]]}

\* train(), line 226: the first env_step, then the head of the for loop
A2CReset ==
    /\ agent.pc = "reset"
    /\ \E out \in EnvStepOutcomes :
          agent' = IF out.fail
                   THEN [agent EXCEPT !.pc = "crashed", !.exc = "game.step"]
                   ELSE [agent EXCEPT !.i = 1,
                            !.pc = IF 1 < agent.opt.n_train_iterations
                                   THEN "collect" ELSE "done"]
    /\ UNCHANGED a3cvars

\* the Experience of iteration i: the masks are 0.0 for the games that are done
Experience(i, dones) == [i |-> i, mask |-> [j \in DOMAIN dones |-> ~dones[j]]]

\* train(), lines 231-241: act, env_step, masks, self.memory.append(...)
A2CCollect ==
    /\ agent.pc = "collect"
    /\ \E out \in EnvStepOutcomes :
          agent' = IF out.fail
                   THEN [agent EXCEPT !.pc = "crashed", !.exc = "game.step"]
                   ELSE [agent EXCEPT !.dones = out.dones,
                            !.memory = Append(@, Experience(agent.i, out.dones)),
                            !.pc = "check"]
    /\ UNCHANGED a3cvars

\* "if i % self.opt.buffer_update_freq == 0"
A2CFlushCond(i, freq) == i % freq = 0

A2CCheck ==
    /\ agent.pc = "check"
    /\ agent' = [agent EXCEPT !.pc =
                    IF A2CFlushCond(agent.i, agent.opt.buffer_update_freq)
                    THEN "optimize" ELSE "tail"]
    /\ UNCHANGED a3cvars

\* optimize_model: the loop of line 178 and the views of lines 184-185 take
\* buffer_update_freq records of n_workers games each from the batch; a batch
\* of another length raises. Then the losses and one optimizer step.
A2COptimize ==
    /\ agent.pc = "optimize"
    /\ agent' = IF Len(agent.memory) = agent.opt.buffer_update_freq
                 THEN [agent EXCEPT !.nsteps = @ + 1, !.loss = TRUE, !.pc = "reset_memory"]
                 ELSE [agent EXCEPT !.pc = "crashed", !.exc = "RuntimeError"]
    /\ UNCHANGED a3cvars

\* "self.memory = []"
ResetMemoryKeep(m) == m

ResetMemory(m) == <<>>

A2CResetMemory ==
    /\ agent.pc = "reset_memory"
    /\ agent' = [agent EXCEPT !.memory = ResetMemory(@), !.pc = "tail"]
    /\ UNCHANGED a3cvars

\* train(), lines 249-272 and the loop head: episode lengths, checkpoint, loss
\* logging (reading a "loss" that was never assigned raises NameError), next
\* iteration
A2CEndIteration ==
    LET saves == agent.i % agent.opt.save_frequency = 0
        logs == agent.i % agent.opt.log_frequency = 0
        lengths == [j \in Games |-> IF agent.dones[j] THEN 0
                                     ELSE agent.episode_lengths[j] + 1]
    IN  /\ agent.pc = "tail"
        /\ agent' =
              IF logs /\ ~agent.loss
              THEN [agent EXCEPT !.pc = "crashed", !.exc = "NameError",
                       !.episode_lengths = lengths,
                       !.saved = IF saves THEN SaveFile(@, agent.i, agent.nsteps) ELSE @]
              ELSE [agent EXCEPT
                       !.episode_lengths = lengths,
                       !.saved = IF saves THEN SaveFile(@, agent.i, agent.nsteps) ELSE @,
                       !.i = @ + 1,
                       !.pc = IF agent.i + 1 < agent.opt.n_train_iterations
                              THEN "collect" ELSE "done"]
        /\ UNCHANGED a3cvars

NextA2C ==
    \/ A2CReset
    \/ A2CCollect
    \/ A2CCheck
    \/ A2COptimize
    \/ A2CResetMemory
    \/ A2CEndIteration

SpecA2C == InitA2C /\ [][NextA2C]_vars

\* ------------------------------------------------------------------ claims
StepPcs == {"inc_read", "inc_write", "moments", "apply"}

\* worker w is inside a call of shared_opt.step()
InStep(w) == worker[w].pc \in StepPcs

\* no call of step() is in progress
Quiescent == \A w \in Workers : ~InStep(w)

\* C1: once every concurrent call of SharedAdam.step has returned, the step
\* counter of each tensor they all touched equals its value before them (0)
\* plus the number of calls: no increment is lost.
C1_NoLostIncrement ==
    Quiescent => \A p \in Params : state[p].step = hist.returned

\* worker w is inside the read-modify-write of tensor p (lines 148-164)
InUpdate(w, p) == InStep(w) /\ worker[w].pc # "inc_read" /\ worker[w].p = p

\* the pushes (gradient ids) whose step() call has returned
CompletedPushes ==
    {g \in UNION {{<<w, k>> : k \in 1 .. worker[w].npush} : w \in Workers} :
        ~InStep(g[1]) \/ g[2] < worker[g[1]].npush}

Orders(S) ==
    {f \in [1 .. Cardinality(S) -> S] : \A x \in S : \E j \in DOMAIN f : f[j] = x}

\* the moment left by applying the pushes of order f one after another
SerialMoment(f) == {<<f[j], Len(f) - j>> : j \in DOMAIN f}

SerialResult(f) ==
    \A p \in Params :
        /\ state[p].step = Len(f)
        /\ state[p].exp_avg = SerialMoment(f)
        /\ state[p].exp_avg_sq = SerialMoment(f)
        /\ global_net[p] = {f[j] : j \in DOMAIN f}

\* C2: two workers are never inside the read-modify-write of the same tensor
\* at the same time, and after any interleaving of pushes every shared tensor
\* and its moment estimates equal the result of applying all the pushes one
\* after another in some order.
C2_PushesSerializable ==
    /\ \A w \in Workers, v \in Workers, p \in Params :
          w # v => ~(InUpdate(w, p) /\ InUpdate(v, p))
    /\ Quiescent => \E f \in Orders(CompletedPushes) : SerialResult(f)

\* worker w has just completed the load_state_dict of optimize_model (line 263)
PullCompleted(w) == hist.pulled[w] /\ worker[w].pc = "clear"

\* C3: whenever a worker completes its synchronization pull in optimize_model,
\* its whole local copy equals the shared parameter set as it was at one
\* instant during the pull.
C3_PullIsSnapshot ==
    \A w \in Workers : PullCompleted(w) => worker[w].net \in hist.seen[w]

\* C4: at the start of a collection step (top of the loop body of train) the
\* worker's buffer_length is at most BUFFER_UPDATE_FREQ.
C4_BufferBounded ==
    \A w \in Workers :
        worker[w].pc = "collect" => worker[w].buffer_length <= cfg.BUFFER_UPDATE_FREQ

\* a worker is back at the top of the loop after a flush, with the buffer one
\* step below a threshold larger than one
C4_Witness ==
    \E w \in Workers :
        /\ worker[w].pc = "collect"
        /\ hist.flushLog[w] # <<>>
        /\ cfg.BUFFER_UPDATE_FREQ > 1
        /\ worker[w].buffer_length = cfg.BUFFER_UPDATE_FREQ - 1

\* the buffer has reached the threshold, or the step reported done
FlushDue(w) ==
    worker[w].buffer_length = cfg.BUFFER_UPDATE_FREQ \/ worker[w].done

\* C5: at the end of a collection step the worker enters optimize_model if and
\* only if its buffer length has reached the flush threshold or the
\* environment reported done on that step.
C5_FlushIffDue ==
    [][\A w \in Workers :
          (worker[w].pc = "check" /\ worker'[w].pc # "check")
              => (worker'[w].pc = "optimize" <=> FlushDue(w))]_vars

\* a done step flushes a buffer that is below the threshold
C5_Witness ==
    \E w \in Workers :
        /\ worker[w].pc = "optimize"
        /\ worker[w].done
        /\ worker[w].buffer_length < cfg.BUFFER_UPDATE_FREQ

\* the steps at which the scenario expects worker w to flush
ExpectedFlushes(w) == IF w = 0 THEN <<5, 6>> ELSE <<3>>

\* worker w has decided whether to flush at step n
Decided(w, n) ==
    \/ worker[w].i > n
    \/ worker[w].i = n /\ worker[w].pc \notin {"unstarted", "construct", "pull",
                                               "reset", "collect", "check"}
    \/ worker[w].i = n /\ worker[w].pc = "pull" /\ worker[w].ret = "clear"

\* C6: in the scenario, worker B (1) flushes at its step 3, worker A (0) at its
\* steps 5 and 6, no other flush happens, and exactly 3 gradient pushes are
\* made in total, under every interleaving.
C6_ScenarioFlushes ==
    /\ \A w \in Workers :
          hist.flushLog[w] = SelectSeq(ExpectedFlushes(w), LAMBDA n : Decided(w, n))
    /\ hist.calls <= 3
    /\ (\A w \in Workers : worker[w].pc = "done") => hist.calls = 3 /\ hist.returned = 3

\* both workers have run the six steps and the three pushes have returned
C6_Witness ==
    /\ \A w \in Workers : worker[w].pc = "done" /\ worker[w].i = 7
    /\ hist.flushLog = [w \in Workers |-> ExpectedFlushes(w)]
    /\ hist.returned = 3

\* the bias-correction counters that the current call of worker w has used:
\* <<p, t of line 159, t of line 160>> for each tensor p updated so far
TUsed(w) == hist.tused[w]

EpsEq(a, b) == a[1] * b[2] = b[1] * a[2]

EpsLe(a, b) == a[1] * b[2] <= b[1] * a[2]

\* C8: epsilon(0) is INITIAL_EXPLORATION, epsilon(FINAL_EXPLORATION_FRAME) is
\* FINAL_EXPLORATION, epsilon is non-increasing in between and equals
\* FINAL_EXPLORATION beyond; the value a worker uses at iteration i is epsilon(i).
C8_EpsilonSchedule ==
    LET F == cfg.FINAL_EXPLORATION_FRAME
        first == <<cfg.INITIAL_EXPLORATION, 1>>
        final == <<cfg.FINAL_EXPLORATION, 1>>
    IN  /\ EpsEq(Epsilon(cfg, 0), first)
        /\ EpsEq(Epsilon(cfg, F), final)
        /\ \A i \in 0 .. (F - 1) : EpsLe(Epsilon(cfg, i + 1), Epsilon(cfg, i))
        /\ \A i \in (F + 1) .. (F + MaxIters) : EpsEq(Epsilon(cfg, i), final)
        /\ \A w \in Workers :
              worker[w].pc = "check" =>
                  /\ EpsLe(final, worker[w].eps) /\ EpsLe(worker[w].eps, first)
                  /\ worker[w].i >= F => EpsEq(worker[w].eps, final)

\* a worker has used the clamped value beyond the horizon of a schedule that
\* really decreases
C8_Witness ==
    \E w \in Workers :
        /\ worker[w].pc = "check"
        /\ worker[w].i > cfg.FINAL_EXPLORATION_FRAME
        /\ cfg.INITIAL_EXPLORATION > cfg.FINAL_EXPLORATION
        /\ EpsEq(worker[w].eps, <<cfg.FINAL_EXPLORATION, 1>>)

Started(w) == worker[w].pc # "unstarted"

AllExited == \A w \in Workers : Exited(w)

Returned == trainer.pc = "returned"

\* C9: Trainer spawns exactly N_WORKERS processes, all of them are started
\* before any is joined, train returns only after every worker has terminated,
\* and once every worker has terminated train eventually returns.
C9_TrainerLifecycle ==
    /\ [](DOMAIN worker = 0 .. (cfg.N_WORKERS - 1))
    /\ [](trainer.pc \in {"join", "returned"} => \A w \in Workers : Started(w))
    /\ [](Returned => AllExited)
    /\ (AllExited ~> Returned)

\* train has returned after joining two workers that both ran their budget
C9_Witness ==
    /\ Returned
    /\ cfg.N_WORKERS = 2
    /\ \A w \in Workers : worker[w].pc = "done" /\ worker[w].npush > 0

\* the step in which the game.step of worker w raises
EnvFails(w) ==
    /\ worker[w].pc \in {"reset", "collect"}
    /\ worker'[w].pc = "crashed"

\* C10: if a worker's environment step fails, only that worker stops: the
\* shared parameters and optimizer state and the other workers are left as
\* they are, every worker that returns from train has run its whole iteration
\* budget, and the trainer still joins all workers and returns.
C10_FailureIsLocal ==
    /\ [][\A w \in Workers : EnvFails(w) =>
              /\ global_net' = global_net /\ state' = state /\ files' = files
              /\ \A v \in Workers \ {w} : worker'[v] = worker[v]]_vars
    /\ [](\A w \in Workers :
              worker[w].pc = "done" => worker[w].i = cfg.TRAIN_ITERATIONS)
    /\ <>Returned

\* one worker failed, the other ran its budget and pushed, the trainer returned
C10_Witness ==
    /\ Returned
    /\ \E w \in Workers, v \in Workers :
          /\ worker[w].pc = "crashed"
          /\ worker[v].pc = "done" /\ worker[v].i = cfg.TRAIN_ITERATIONS
          /\ worker[v].npush > 0

\* worker w takes a step of its call of shared_opt.step()
StepOf(w) == InStep(w) /\ worker'[w] # worker[w]

\* C11: when the loss of a worker's optimization cycle is non-finite, the
\* gradient apply of that cycle is skipped: no step of the cycle changes the
\* shared parameters, the moment estimates or the step counters, and the
\* worker goes on training (it does not stop because of it).
C11_NonFiniteSkipped ==
    [][\A w \in Workers :
          (StepOf(w) /\ ~worker[w].finite) =>
              /\ global_net' = global_net
              /\ state' = state
              /\ worker'[w].pc # "crashed"]_vars

\* the call of step() by worker w has returned (optimize_model is at line 263)
StepReturned(w) == worker[w].pc = "pull" /\ worker[w].ret = "clear"

\* the call that applied gradient g left it in tensor p and in p's moments
Updated(p, g) ==
    /\ g \in global_net[p]
    /\ \E e \in 0 .. hist.calls : <<g, e>> \in state[p].exp_avg
    /\ \E e \in 0 .. hist.calls : <<g, e>> \in state[p].exp_avg_sq
    /\ state[p].step >= 1

\* C12: in SharedAdam.step a tensor whose gradient is null is skipped without
\* error (no step of the call changes its value, its two moments or its step
\* counter), while the tensors that have a gradient are updated by the call.
C12_NullGradSkipped ==
    /\ [][\A w \in Workers : StepOf(w) =>
              /\ worker'[w].pc # "crashed"
              /\ \A p \in Params : worker[w].grad[p] = NoGrad =>
                    state'[p] = state[p] /\ global_net'[p] = global_net[p]]_vars
    /\ [](\A w \in Workers : StepReturned(w) =>
              \A p \in Params : worker[w].grad[p] # NoGrad => Updated(p, worker[w].grad[p]))

\* a call has returned that skipped one tensor, left untouched, and updated another
C12_Witness ==
    \E w \in Workers, p \in Params, q \in Params :
        /\ StepReturned(w)
        /\ worker[w].grad[p] = NoGrad /\ worker[w].grad[q] # NoGrad
        /\ state[p] = [step |-> 0, exp_avg |-> {}, exp_avg_sq |-> {}]
        /\ global_net[p] = {}
        /\ Updated(q, worker[w].grad[q])

\* C13: the checkpoint path depends only on the iteration index, and the
\* content left at a path is the same whichever of the workers that trigger
\* the checkpoint of that iteration writes last: a write to a path that
\* already holds a checkpoint leaves the content it held.
C13_CheckpointIdempotent ==
    [][\A f \in files, g \in files' : f[1] = g[1] => f[2] = g[2]]_vars

\* worker w has computed the loss of a cycle and not yet cleared the buffer
LossComputed(w) ==
    InStep(w) \/ StepReturned(w) \/ worker[w].pc = "clear"

\* the iteration of train() in which record number k (1 .. buffer_length) of
\* the current cycle of worker w was collected
RecordStep(w, k) == worker[w].i - worker[w].buffer_length + k

\* the loss terms of worker w in the order of the loop: record n first
TermOf(w, k) == worker[w].lossval.terms[worker[w].buffer_length + 1 - k]

\* R_k = reward_k + DISCOUNT * R_(k+1), R past the last record the bootstrap value
ValueTargetOf(w, k) ==
    Discounted([m \in 1 .. (worker[w].buffer_length + 1 - k) |->
                    <<"reward", RecordStep(w, k + m - 1)>>],
               BootstrapValue(worker[w]))

\* C15: the value loss is the sum over the records k of the cycle of
\* (R_k - value_k)^2, R_k being the discounted value target
\* reward_k + DISCOUNT * R_(k+1) that ends in the bootstrap value.
C15_ValueLossUsesTarget ==
    \A w \in Workers : LossComputed(w) =>
        \A k \in 1 .. worker[w].buffer_length :
            TermOf(w, k).advantage = <<ValueTargetOf(w, k), <<"value", RecordStep(w, k)>>>>

\* the kind of value that train() appends to each field of the buffer
KindOf(key) == IF key = "action_prob" THEN "log_prob" ELSE key

\* C16: after every flush each of the four buffer fields is an empty sequence
\* of its own, so after every collection step each field holds exactly
\* buffer_length entries and entry k of a field is the value of that kind
\* recorded at the k-th step since the flush.
C16_BufferFieldsOwnRecords ==
    \A w \in Workers : worker[w].pc \in {"check", "optimize", "tail"} =>
        \A key \in BufferKeys :
            /\ Len(worker[w].buffer.lists[key]) = worker[w].buffer_length
            /\ \A k \in 1 .. worker[w].buffer_length :
                  worker[w].buffer.lists[key][k] = <<KindOf(key), RecordStep(w, k)>>

\* value_(k+1): the value of the next record, past the last one the bootstrap value
NextValueOf(w, k) ==
    IF k = worker[w].buffer_length THEN BootstrapValue(worker[w])
    ELSE <<"value", RecordStep(w, k + 1)>>

\* C17: in every optimization cycle (first flush or later) the policy loss is
\* accumulated over the cycle's records in reverse chronological order from
\* delta_k = reward_k + DISCOUNT * value_(k+1) - value_k, log_prob_k and
\* entropy_k, with the operands recorded in that cycle and no others.
C17_PolicyLossFromCycle ==
    \A w \in Workers : LossComputed(w) =>
        /\ Len(worker[w].lossval.terms) = worker[w].buffer_length
        /\ \A k \in 1 .. worker[w].buffer_length :
              /\ TermOf(w, k).delta_t = <<<<"reward", RecordStep(w, k)>>,
                                          NextValueOf(w, k),
                                          <<"value", RecordStep(w, k)>>>>
              /\ TermOf(w, k).log_prob = <<"log_prob", RecordStep(w, k)>>
              /\ TermOf(w, k).entropy = <<"entropy", RecordStep(w, k)>>

\* worker w has just left optimize_model's loss computation for step()
JustOptimized(w) == worker[w].pc = "inc_read" /\ worker[w].p = 0

\* C18: the bootstrap value of a cycle is zero when the step that triggered
\* the flush reported done and otherwise the value estimate of one more
\* forward pass on the state after the last buffered step; that forward pass
\* never applies the exploration override and adds no experience record.
C18_BootstrapValue ==
    /\ [](\A w \in Workers : JustOptimized(w) =>
              /\ ~worker[w].explored
              /\ Len(worker[w].lossval.terms) = worker[w].buffer_length
              /\ \A k \in 1 .. worker[w].buffer_length :
                    TermOf(w, k).advantage[1].boot =
                        IF worker[w].done THEN <<"const", 0>>
                        ELSE <<"value_1", worker[w].i>>)
    /\ [][\A w \in Workers :
              (worker[w].pc = "optimize" /\ worker'[w].pc # "optimize") =>
                  worker'[w].buffer_length = worker[w].buffer_length]_vars

\* a flush by the threshold (not done) of a worker whose training passes run
\* with eps = 1, where the override always applies: the bootstrap pass on the
\* next state gave the bootstrap value and did not explore
C18_Witness ==
    \E w \in Workers :
        /\ JustOptimized(w)
        /\ ~worker[w].done
        /\ worker[w].buffer_length > 1
        /\ EpsEq(worker[w].eps, <<cfg.INITIAL_EXPLORATION, 1>>)
        /\ cfg.INITIAL_EXPLORATION = MaxEps
        /\ ~worker[w].explored
        /\ TermOf(w, 1).advantage[1].boot = <<"value_1", worker[w].i>>

\* the pulls worker w has completed: the one of the constructor and one per
\* push that has been followed by its pull
PullsDue(w) ==
    IF InStep(w) \/ StepReturned(w) THEN worker[w].npush ELSE worker[w].npush + 1

\* the pull whose parameters the records of the current buffer must come from:
\* the one that followed the worker's previous push
PullOfRecords(w) ==
    IF LossComputed(w) THEN worker[w].npush ELSE worker[w].npush + 1

Running(w) == worker[w].pc \notin {"unstarted", "construct", "crashed"}

\* C19: every push of a worker is followed by exactly one pull of the shared
\* parameters and then by the buffer clear, before the worker's next forward
\* pass or environment step; the local copy changes only in a pull; so every
\* record of a buffer was produced with the parameters pulled right after the
\* worker's own previous push.
C19_PushPullClear ==
    /\ [][\A w \in Workers :
              /\ worker'[w].net # worker[w].net => worker[w].pc = "pull"
              /\ (InStep(w) /\ ~(worker'[w].pc \in StepPcs)) =>
                      (worker'[w].pc = "pull" /\ worker'[w].ret = "clear")
              /\ (StepReturned(w) /\ worker'[w].pc # "pull") => worker'[w].pc = "clear"
              /\ (worker[w].pc = "clear" /\ worker'[w].pc # "clear") =>
                      /\ worker'[w].pc = "tail"
                      /\ worker'[w].buffer_length = 0
                      /\ \A key \in BufferKeys : worker'[w].buffer.lists[key] = <<>>
              /\ worker'[w].pc = "collect" => ~LossComputed(w)]_vars
    /\ [](\A w \in Workers :
              /\ (Running(w) /\ ~(worker[w].pc = "pull" /\ worker[w].ret = "reset"))
                    => hist.npull[w] = PullsDue(w)
              /\ hist.recpull[w] \subseteq {PullOfRecords(w)})

\* a buffer of two records collected after the worker's second push and pull
C19_Witness ==
    \E w \in Workers :
        /\ worker[w].pc = "check"
        /\ worker[w].npush >= 2
        /\ worker[w].buffer_length >= 2
        /\ hist.recpull[w] = {worker[w].npush + 1}
        /\ hist.npull[w] = worker[w].npush + 1

\* a step of worker w
WorkerNext(w) ==
    \/ Construct(w) \/ PullTensor(w) \/ EnvReset(w) \/ Collect(w) \/ FlushCheck(w)
    \/ Optimize(w) \/ StepIncRead(w) \/ StepIncWrite(w) \/ StepMoments(w)
    \/ StepApply(w) \/ Clear(w) \/ EndIteration(w)

\* worker w is in TERMINAL: its loop has run the whole iteration budget
Terminal(w) == worker[w].pc = "done" /\ worker[w].i = cfg.TRAIN_ITERATIONS

\* C20: under fair scheduling every worker reaches TERMINAL, its loop ending
\* once TRAIN_ITERATIONS is exhausted, whatever its environment reports (a
\* worker stops before that only when its own game.step raises) and whatever
\* the other workers do: a started worker that has not stopped can always
\* take its next step; after it has stopped it takes no step at all.
C20_WorkersReachTerminal ==
    /\ [](\A w \in Workers :
              Exited(w) => (Terminal(w) \/ worker[w].exc = "game.step"))
    /\ [](\A w \in Workers :
              (Started(w) /\ ~Exited(w)) => ENABLED WorkerNext(w))
    /\ [][\A w \in Workers : Exited(w) => worker'[w] = worker[w]]_vars
    /\ <>AllExited

\* worker w is at the loss logging of lines 324-326 in a logging iteration
AtLossLogging(w) ==
    /\ w = LOG_WORKER
    /\ worker[w].pc = "tail"
    /\ worker[w].i % LOG_FREQ = 0

\* C21: whenever the logging worker (id 2) reaches a loss-logging iteration
\* (i a multiple of 100), at least one optimize_model call of that worker has
\* completed, so the logged loss is defined, whatever the flush threshold and
\* the done outcomes of the environment; logging never stops a worker.
C21_LoggedLossDefined ==
    \A w \in Workers :
        /\ AtLossLogging(w) => (worker[w].npush >= 1 /\ worker[w].loss.bound)
        /\ worker[w].exc # "NameError"

\* C22: in A2CAgent.train, at every call of optimize_model the memory holds
\* exactly buffer_update_freq experience records, one per iteration since the
\* previous optimization; the memory is empty right after each optimization;
\* and its length never exceeds buffer_update_freq.
C22_MemoryLength ==
    LET freq == agent.opt.buffer_update_freq
    IN  /\ Len(agent.memory) <= freq
        /\ agent.pc = "optimize" =>
              /\ Len(agent.memory) = freq
              /\ \A k \in 1 .. freq : agent.memory[k].i = agent.i - freq + k
        /\ (agent.pc = "tail" /\ agent.i % freq = 0) => agent.memory = <<>>
        /\ agent.exc # "RuntimeError"

\* the second optimization of a run with a threshold above one is about to
\* be made, on a memory that was emptied after the first
C22_Witness ==
    /\ agent.pc = "optimize"
    /\ agent.opt.buffer_update_freq > 1
    /\ agent.i = 2 * agent.opt.buffer_update_freq
    /\ agent.nsteps = 1
    /\ Len(agent.memory) = agent.opt.buffer_update_freq

====
